---- MODULE Spec2Model ----
(***************************************************************************)
(* Model of Text2SQLSystem (src/streamlit_app.py): the SQL validation of   *)
(* generated queries.  A Python str is a sequence of one-character         *)
(* strings, so that upper(), lower(), re.search and the tokenizer are      *)
(* computed character by character.                                        *)
(***************************************************************************)
EXTENDS Naturals, Sequences, FiniteSets, TLC

VARIABLES
    schema,            \* self.schema['tables'] (line 15), loaded once
    hash_seed,         \* the interpreter's str-hash seed: fixes set iteration order
    sql_query,         \* the string returned by generate_sql_with_gemini (line 322)
    pc,                \* "generated" | "validated": position in process_query
    result,            \* (is_valid, validation_msg) of the last validate_sql call
    prev_result,       \* the result of the previous process's call on the same input
    stmt_type,         \* statement.get_type() of the last call (line 248)
    tables_in_query,   \* local of validate_sql (line 252) at its return
    columns_in_query,  \* local of validate_sql (line 253) at its return
    safety             \* return value of a direct check_unsafe_query call

vars == <<schema, hash_seed, sql_query, pc, result, prev_result, stmt_type,
          tables_in_query, columns_in_query, safety>>

(***************************************************************************)
(* Characters.                                                             *)
(***************************************************************************)
LowerSeq == <<"a","b","c","d","e","f","g","h","i","j","k","l","m",
              "n","o","p","q","r","s","t","u","v","w","x","y","z">>

UpperSeq == <<"A","B","C","D","E","F","G","H","I","J","K","L","M",
              "N","O","P","Q","R","S","T","U","V","W","X","Y","Z">>

\* The characters of the model in code-point order (str comparison, sorted()).
CodeOrder == <<" ", "(", ")", "*", ".", ";">> \o UpperSeq \o <<"[", "]", "_">> \o LowerSeq

Range(f) == {f[i] : i \in DOMAIN f}

LowerChars == Range(LowerSeq)

UpperChars == Range(UpperSeq)

Chars == Range(CodeOrder)

CharCode == [c \in Chars |-> CHOOSE i \in DOMAIN CodeOrder : CodeOrder[i] = c]

UpperOf == [c \in Chars |-> IF c \in LowerChars
                            THEN UpperSeq[CHOOSE i \in DOMAIN LowerSeq : LowerSeq[i] = c]
                            ELSE c]

LowerOf == [c \in Chars |-> IF c \in UpperChars
                            THEN LowerSeq[CHOOSE i \in DOMAIN UpperSeq : UpperSeq[i] = c]
                            ELSE c]

\* str.upper() and str.lower()
upper(s) == [i \in DOMAIN s |-> UpperOf[s[i]]]

lower(s) == [i \in DOMAIN s |-> LowerOf[s[i]]]

\* \w of the re module over the model's characters
WordChars == LowerChars \cup UpperChars \cup {"_"}

IsWordChar(c) == c \in WordChars

\* str comparison: lexicographic by code point
RECURSIVE StrLess(_, _)
StrLess(a, b) ==
    IF b = <<>> THEN FALSE
    ELSE IF a = <<>> THEN TRUE
    ELSE IF a[1] # b[1] THEN CharCode[a[1]] < CharCode[b[1]]
    ELSE StrLess(Tail(a), Tail(b))

\* sorted(S) for a set of str
RECURSIVE sorted(_)
sorted(S) ==
    IF S = {} THEN <<>>
    ELSE LET m == CHOOSE x \in S : \A y \in S \ {x} : StrLess(x, y)
         IN <<m>> \o sorted(S \ {m})

Reverse(q) == [i \in DOMAIN q |-> q[Len(q) + 1 - i]]

(***************************************************************************)
(* check_unsafe_query (lines 112-120).                                     *)
(***************************************************************************)
unsafe_keywords ==
    << <<"D","E","L","E","T","E">>,
       <<"D","R","O","P">>,
       <<"T","R","U","N","C","A","T","E">>,
       <<"A","L","T","E","R">>,
       <<"C","R","E","A","T","E">>,
       <<"I","N","S","E","R","T">>,
       <<"U","P","D","A","T","E">> >>

\* \b at position p of s: between s[p-1] and s[p], exactly one is a word character
WordBoundary(s, p) ==
    LET before == p > 1 /\ p - 1 <= Len(s) /\ IsWordChar(s[p - 1])
        after  == p >= 1 /\ p <= Len(s) /\ IsWordChar(s[p])
    IN before # after

\* the keyword, unbounded on both sides: a bug that drops the \b of line 117
re_search_no_boundary(keyword, s) ==
    \E i \in 1..Len(s) :
        /\ i + Len(keyword) - 1 <= Len(s)
        /\ s[i] = keyword[1]
        /\ SubSeq(s, i, i + Len(keyword) - 1) = keyword

\* re.search(r'\b' + keyword + r'\b', s) is not None  (lines 117-118)
re_search(keyword, s) ==
    \E i \in 1..Len(s) :
        /\ i + Len(keyword) - 1 <= Len(s)
        /\ s[i] = keyword[1]
        /\ SubSeq(s, i, i + Len(keyword) - 1) = keyword
        /\ WordBoundary(s, i)
        /\ WordBoundary(s, i + Len(keyword))

\* a bug that searches the query as given instead of query.upper() (line 114)
check_unsafe_query_no_upper(query) ==
    LET hits == {k \in DOMAIN unsafe_keywords : re_search(unsafe_keywords[k], query)}
    IN IF hits = {} THEN [safe |-> TRUE, keyword |-> <<>>]
       ELSE [safe |-> FALSE,
             keyword |-> unsafe_keywords[CHOOSE k \in hits : \A j \in hits : k <= j]]

\* check_unsafe_query: the first keyword of the list that matches decides
check_unsafe_query(query) ==
    LET query_upper == upper(query)
        hits == {k \in DOMAIN unsafe_keywords : re_search(unsafe_keywords[k], query_upper)}
    IN IF hits = {} THEN [safe |-> TRUE, keyword |-> <<>>]
       ELSE [safe |-> FALSE,
             keyword |-> unsafe_keywords[CHOOSE k \in hits : \A j \in hits : k <= j]]

(***************************************************************************)
(* sqlparse.parse (line 241) and statement.flatten() (line 254): the       *)
(* library's lexer, rule by rule in the order of its SQL_REGEX table, for  *)
(* the characters of the model.  A token is [ttype, value]; ttype is the   *)
(* exact token type, which the walk compares by identity (is).             *)
(***************************************************************************)
kw_SELECT == <<"S","E","L","E","C","T">>

kw_FROM == <<"F","R","O","M">>

kw_JOIN == <<"J","O","I","N">>

UNKNOWN == <<"U","N","K","N","O","W","N">>

\* (CASE|IN|VALUES|USING|FROM|AS)\b -> Keyword, before any name rule
EarlyKeywords ==
    { <<"C","A","S","E">>, <<"I","N">>, <<"V","A","L","U","E","S">>,
      <<"U","S","I","N","G">>, kw_FROM, <<"A","S">> }

\* the words that may precede \s+JOIN in the lexer's JOIN rule
JoinPrefixes ==
    { <<"L","E","F","T">>, <<"R","I","G","H","T">>, <<"F","U","L","L">>,
      <<"I","N","N","E","R">>, <<"O","U","T","E","R">>, <<"C","R","O","S","S">>,
      <<"N","A","T","U","R","A","L">> }

\* KEYWORDS of the lexer: Keyword.DML, Keyword.DDL and plain Keyword entries
KeywordsDML == { kw_SELECT, <<"I","N","S","E","R","T">>, <<"U","P","D","A","T","E">>,
                 <<"D","E","L","E","T","E">> }

KeywordsDDL == { <<"C","R","E","A","T","E">>, <<"D","R","O","P">>, <<"A","L","T","E","R">> }

KeywordsPlain == { <<"W","H","E","R","E">>, <<"O","N">>, <<"T","A","B","L","E">>,
                   <<"T","R","U","N","C","A","T","E">>, <<"A","N","D">>, <<"O","R">> }
                 \cup JoinPrefixes

\* the last index of the maximal run of \w characters that starts at i
RECURSIVE WordEnd(_, _)
WordEnd(s, i) ==
    IF i + 1 <= Len(s) /\ IsWordChar(s[i + 1]) THEN WordEnd(s, i + 1) ELSE i

\* the first index at or after i that holds no space
RECURSIVE SkipSpaces(_, _)
SkipSpaces(s, i) ==
    IF i <= Len(s) /\ s[i] = " " THEN SkipSpaces(s, i + 1) ELSE i

\* the index of the first c at or after i, or 0
RECURSIVE IndexFrom(_, _, _)
IndexFrom(s, c, i) ==
    IF i > Len(s) THEN 0 ELSE IF s[i] = c THEN i ELSE IndexFrom(s, c, i + 1)

\* is_keyword: the generic word rule looks the upper-cased word up in KEYWORDS
is_keyword(w) ==
    LET u == upper(w)
    IN IF u \in KeywordsDML THEN "Keyword.DML"
       ELSE IF u \in KeywordsDDL THEN "Keyword.DDL"
       ELSE IF u \in KeywordsPlain THEN "Keyword"
       ELSE "Name"

\* the token the lexer produces at position i, where s[i] starts a word
WordToken(s, i) ==
    LET e    == WordEnd(s, i)
        w    == SubSeq(s, i, e)
        u    == upper(w)
        nx   == SkipSpaces(s, e + 1)
        je   == IF nx <= Len(s) /\ IsWordChar(s[nx]) THEN WordEnd(s, nx) ELSE 0
        letter == s[i] # "_"
    IN IF u \in EarlyKeywords THEN [ttype |-> "Keyword", value |-> w]
       ELSE IF letter /\ nx <= Len(s) /\ s[nx] = "." THEN [ttype |-> "Name", value |-> w]
       ELSE IF letter /\ i > 1 /\ s[i - 1] = "." THEN [ttype |-> "Name", value |-> w]
       ELSE IF letter /\ e + 1 <= Len(s) /\ s[e + 1] = "(" THEN [ttype |-> "Name", value |-> w]
       ELSE IF u = kw_JOIN THEN [ttype |-> "Keyword", value |-> w]
       ELSE IF /\ u \in JoinPrefixes
               /\ nx > e + 1
               /\ je # 0
               /\ upper(SubSeq(s, nx, je)) = kw_JOIN
            THEN [ttype |-> "Keyword", value |-> SubSeq(s, i, je)]
       ELSE [ttype |-> is_keyword(w), value |-> w]

\* the token the lexer produces at position i
TokenAt(s, i) ==
    LET c == s[i]
    IN IF c = " " THEN [ttype |-> "Whitespace", value |-> <<c>>]
       ELSE IF c = "*" THEN [ttype |-> "Wildcard", value |-> <<c>>]
       ELSE IF IsWordChar(c) THEN WordToken(s, i)
       ELSE IF /\ c = "["
               /\ ~(i > 1 /\ (IsWordChar(s[i - 1]) \/ s[i - 1] \in {"]", ")"}))
               /\ IndexFrom(s, "]", i + 1) > i + 1
               /\ IndexFrom(s, "[", i + 1) \in {0} \cup (IndexFrom(s, "]", i + 1)..Len(s))
            THEN [ttype |-> "Name", value |-> SubSeq(s, i, IndexFrom(s, "]", i + 1))]
       ELSE [ttype |-> "Punctuation", value |-> <<c>>]

\* the leaf tokens of the whole string, in order
RECURSIVE Lex(_, _)
Lex(s, i) ==
    IF i > Len(s) THEN <<>>
    ELSE LET t == TokenAt(s, i) IN <<t>> \o Lex(s, i + Len(t.value))

\* parsed[0]: the tokens up to and including the first ';' (line 245)
FirstStatement(toks) ==
    LET ends == {i \in DOMAIN toks : toks[i].ttype = "Punctuation" /\ toks[i].value = <<";">>}
    IN IF ends = {} THEN toks
       ELSE SubSeq(toks, 1, CHOOSE i \in ends : \A j \in ends : i <= j)

\* a bug that takes every DML or DDL statement for a SELECT
get_type_any_dml(statement) ==
    LET idx == {i \in DOMAIN statement : statement[i].ttype # "Whitespace"}
    IN IF idx = {} THEN UNKNOWN
       ELSE LET t == statement[CHOOSE i \in idx : \A j \in idx : i <= j]
            IN IF t.ttype \in {"Keyword.DML", "Keyword.DDL"} THEN kw_SELECT ELSE UNKNOWN

\* Statement.get_type() (line 248): the first token that is not whitespace
get_type(statement) ==
    LET idx == {i \in DOMAIN statement : statement[i].ttype # "Whitespace"}
    IN IF idx = {} THEN UNKNOWN
       ELSE LET t == statement[CHOOSE i \in idx : \A j \in idx : i <= j]
            IN IF t.ttype \in {"Keyword.DML", "Keyword.DDL"} THEN upper(t.value) ELSE UNKNOWN

(***************************************************************************)
(* validate_sql (lines 237-312).                                           *)
(***************************************************************************)
\* value.split('.', 1) of a value that holds a '.'
SplitDot(v) ==
    LET d == IndexFrom(v, ".", 1)
    IN <<SubSeq(v, 1, d - 1), SubSeq(v, d + 1, Len(v))>>

HasDot(v) == IndexFrom(v, ".", 1) # 0

\* the loop of lines 257-272 from token i on; cur is current_token (<<>> for None)
RECURSIVE TokenWalk(_, _, _, _, _)
TokenWalk(toks, i, cur, tabs, cols) ==
    IF i > Len(toks) THEN [tables |-> tabs, columns |-> cols]
    ELSE LET token == toks[i]
         IN IF token.ttype = "Name"
            THEN LET after == cur # <<>> /\ upper(cur[1].value) \in {kw_FROM, kw_JOIN}
                     tabs2 == IF after THEN tabs \cup {lower(token.value)} ELSE tabs
                     \* lines 261-265: the branch after a current_token 'SELECT'
                     cols1 == IF /\ ~after
                                 /\ cur # <<>>
                                 /\ upper(cur[1].value) = kw_SELECT
                                 /\ HasDot(token.value)
                              THEN cols \cup {SplitDot(lower(token.value))}
                              ELSE cols
                     \* lines 267-269: a '.' anywhere in the query
                     cols2 == IF HasDot(token.value)
                              THEN cols1 \cup {SplitDot(lower(token.value))}
                              ELSE cols1
                 IN TokenWalk(toks, i + 1, <<token>>, tabs2, cols2)
            ELSE IF token.ttype = "Keyword"
            THEN TokenWalk(toks, i + 1, <<token>>, tabs, cols)
            ELSE TokenWalk(toks, i + 1, cur, tabs, cols)

\* "table.column"
Dotted(pair) == pair[1] \o <<".">> \o pair[2]

\* Iteration order of a set of str: fixed by the process's hash seed.  Two of the
\* orders an interpreter can produce are modelled, one per seed.
IterOrder(S, seed) == IF seed = "seedA" THEN sorted(S) ELSE Reverse(sorted(S))

\* next((t for t in self.schema['tables'] if t['table_name'] == table_name), None)
TableInfo(sch, table_name) ==
    LET idx == {i \in DOMAIN sch : sch[i].table_name = table_name}
    IN IF idx = {} THEN <<>> ELSE <<sch[CHOOSE i \in idx : \A j \in idx : i <= j]>>

\* lines 282-290: the invalid "table.column" strings, in iteration order of the set
InvalidColumns(sch, cols, seed) ==
    LET valid_tables == {sch[i].table_name : i \in DOMAIN sch}
        bad == {Dotted(c) : c \in {c \in cols :
                    /\ c[1] \in valid_tables
                    /\ c[2] \notin Range(TableInfo(sch, c[1])[1].columns)}}
    IN IterOrder(bad, seed)

\* lines 294-300: one "table: columns" entry per invalid column
TableColumnsInfo(sch, invalid_columns) ==
    [k \in DOMAIN invalid_columns |->
        LET table_name == SplitDot(invalid_columns[k])[1]
        IN <<table_name, TableInfo(sch, table_name)[1].columns>>]

Verdict(ok, reason, items, available, type, tabs, cols) ==
    [ok |-> ok, reason |-> reason, items |-> items, available |-> available,
     stmt_type |-> type, tables |-> tabs, columns |-> cols]

\* lines 241-302: parse, statement type, tables, columns; "Valid" when all pass
schema_checks(query, sch, seed) ==
    IF query = <<>>
    THEN Verdict(FALSE, "InvalidSyntax", <<>>, <<>>, <<>>, {}, {})
    ELSE
    LET statement == FirstStatement(Lex(query, 1))
        type == get_type(statement)
    IN IF type # kw_SELECT
       THEN Verdict(FALSE, "OnlySelect", <<>>, <<>>, type, {}, {})
       ELSE
       LET walk == TokenWalk(statement, 1, <<>>, {}, {})
           valid_tables == {sch[i].table_name : i \in DOMAIN sch}
           invalid_tables == walk.tables \ valid_tables
           invalid_columns == InvalidColumns(sch, walk.columns, seed)
       IN IF invalid_tables # {}
          THEN Verdict(FALSE, "Tables", IterOrder(invalid_tables, seed),
                       sorted(valid_tables), type, walk.tables, walk.columns)
          ELSE IF invalid_columns # <<>>
          THEN Verdict(FALSE, "Columns", invalid_columns,
                       TableColumnsInfo(sch, invalid_columns), type, walk.tables, walk.columns)
          ELSE Verdict(TRUE, "Valid", <<>>, <<>>, type, walk.tables, walk.columns)

\* a bug that returns after the schema checks and never runs the unsafe-keyword check
validate_sql_no_gate(query, sch, seed) == schema_checks(query, sch, seed)

\* a bug that runs the unsafe-keyword check before parsing instead of last
validate_sql_gate_first(query, sch, seed) ==
    LET gate == check_unsafe_query(query)
    IN IF ~gate.safe
       THEN Verdict(FALSE, "Unsafe", <<gate.keyword>>, <<>>, <<>>, {}, {})
       ELSE schema_checks(query, sch, seed)

\* validate_sql: the schema checks, then check_unsafe_query (lines 304-309).
\* The handler of lines 311-312 is not entered: the schema is loaded (main returns
\* at line 349 otherwise) and every table the column loop looks up exists.
validate_sql(query, sch, seed) ==
    LET v == schema_checks(query, sch, seed)
        gate == check_unsafe_query(query)
    IN IF ~v.ok THEN v
       ELSE IF ~gate.safe
       THEN Verdict(FALSE, "Unsafe", <<gate.keyword>>, <<>>, v.stmt_type, v.tables, v.columns)
       ELSE v

(***************************************************************************)
(* Inputs.  The schema is the JSON document load_schema reads; the query   *)
(* is whatever text the generator returns: up to MaxFrags fragments joined *)
(* by single spaces.                                                        *)
(***************************************************************************)
MaxFrags == 3

n_users == <<"u","s","e","r","s">>

n_user_id == <<"u","s","e","r","_","i","d">>

n_name == <<"n","a","m","e">>

n_incidents == <<"i","n","c","i","d","e","n","t","s">>

n_incident_id == <<"i","n","c","i","d","e","n","t","_","i","d">>

n_status == <<"s","t","a","t","u","s">>

\* the schema of the documented scenarios, all names in lower case
SchemaLower ==
    << [table_name |-> n_users, columns |-> <<n_user_id, n_name>>],
       [table_name |-> n_incidents, columns |-> <<n_incident_id, n_user_id, n_status>>] >>

\* a schema document whose names carry capitals
SchemaMixed ==
    << [table_name |-> <<"U","s","e","r","s">>, columns |-> <<<<"U","s","e","r","_","I","D">>, <<"N","a","m","e">>>>] >>

Schemas == {SchemaLower, SchemaMixed}

Seeds == {"seedA", "seedB"}

\* SELECT *
frag_select_star == <<"S","E","L","E","C","T"," ","*">>

\* FROM Users
frag_from_users == <<"F","R","O","M"," ","U","s","e","r","s">>

\* FROM ghosts
frag_from_ghosts == <<"F","R","O","M"," ","g","h","o","s","t","s">>

\* JOIN orders
frag_join_orders == <<"J","O","I","N"," ","o","r","d","e","r","s">>

\* LEFT JOIN ghosts
frag_left_join == <<"L","E","F","T"," ","J","O","I","N"," ","g","h","o","s","t","s">>

\* FROM (SELECT user_id)
frag_subquery == <<"F","R","O","M"," ","(","S","E","L","E","C","T"," ","u","s","e","r","_","i","d",")">>

\* WHERE users.bogus
frag_where_column == <<"W","H","E","R","E"," ","u","s","e","r","s",".","b","o","g","u","s">>

\* ; DROP TABLE users
frag_second_statement == <<";"," ","D","R","O","P"," ","T","A","B","L","E"," ","u","s","e","r","s">>

\* updated_on
frag_updated_on == <<"u","p","d","a","t","e","d","_","o","n">>

\* Delete
frag_delete == <<"D","e","l","e","t","e">>

\* [users.bogus]
frag_bracket_name == <<"[","u","s","e","r","s",".","b","o","g","u","s","]">>

Fragments == {frag_select_star,
              frag_from_users,
              frag_from_ghosts,
              frag_join_orders,
              frag_left_join,
              frag_subquery,
              frag_where_column,
              frag_second_statement,
              frag_updated_on,
              frag_delete,
              frag_bracket_name}

RECURSIVE JoinFrags(_)
JoinFrags(frs) ==
    IF frs = <<>> THEN <<>>
    ELSE IF Len(frs) = 1 THEN frs[1]
    ELSE frs[1] \o <<" ">> \o JoinFrags(Tail(frs))

Queries == {JoinFrags(frs) : frs \in UNION {[1..n -> Fragments] : n \in 0..MaxFrags}}

(***************************************************************************)
(* The state machine.                                                      *)
(***************************************************************************)
NoResult == [ok |-> FALSE, reason |-> "None", items |-> <<>>, available |-> <<>>]

NoSafety == [called |-> FALSE, safe |-> FALSE, keyword |-> <<>>]

Init ==
    /\ schema \in Schemas
    /\ hash_seed = "seedA"
    /\ sql_query \in Queries
    /\ pc = "generated"
    /\ result = NoResult
    /\ prev_result = NoResult
    /\ stmt_type = <<>>
    /\ tables_in_query = {}
    /\ columns_in_query = {}
    /\ safety = NoSafety

\* process_query step 3 (line 327): is_valid, validation_msg = self.validate_sql(sql_query)
ValidateSql ==
    /\ pc = "generated"
    /\ \E v \in {validate_sql(sql_query, schema, hash_seed)} :
          /\ result' = [ok |-> v.ok, reason |-> v.reason, items |-> v.items,
                        available |-> v.available]
          /\ stmt_type' = v.stmt_type
          /\ tables_in_query' = v.tables
          /\ columns_in_query' = v.columns
    /\ pc' = "validated"
    /\ UNCHANGED <<schema, hash_seed, sql_query, prev_result, safety>>

\* The process is started again (a new hash seed, the same schema file) and is
\* handed the same query; prev_result remembers what the last process answered.
\* One restart per run is followed.
Restart ==
    /\ pc = "validated"
    /\ prev_result = NoResult
    /\ hash_seed' \in Seeds \ {hash_seed}
    /\ prev_result' = result
    /\ result' = NoResult
    /\ stmt_type' = <<>>
    /\ tables_in_query' = {}
    /\ columns_in_query' = {}
    /\ pc' = "generated"
    /\ UNCHANGED <<schema, sql_query, safety>>

\* a direct call of check_unsafe_query(sql_query)
CheckUnsafeQuery ==
    /\ ~safety.called
    /\ LET r == check_unsafe_query(sql_query)
       IN safety' = [called |-> TRUE, safe |-> r.safe, keyword |-> r.keyword]
    /\ UNCHANGED <<schema, hash_seed, sql_query, pc, result, prev_result, stmt_type,
                   tables_in_query, columns_in_query>>

Next == ValidateSql \/ Restart

Spec == Init /\ [][Next]_vars

GateNext == CheckUnsafeQuery

GateSpec == Init /\ [][GateNext]_vars

(***************************************************************************)
(* Vocabulary of the properties, read off the query text and the schema    *)
(* and not off the validator's own intermediate results.                   *)
(***************************************************************************)
IdentChars == LowerChars \cup UpperChars \cup {"_"}

\* keyword kw stands at position i of s, in any letter case, as a whole word
WholeWordAt(s, kw, i) ==
    /\ i + Len(kw) - 1 <= Len(s)
    /\ UpperOf[s[i]] = kw[1]
    /\ upper(SubSeq(s, i, i + Len(kw) - 1)) = kw
    /\ (i = 1 \/ s[i - 1] \notin IdentChars)
    /\ (i + Len(kw) > Len(s) \/ s[i + Len(kw)] \notin IdentChars)

\* keyword kw occurs in s in any letter case, possibly inside an identifier
OccursIn(s, kw) ==
    \E i \in 1..Len(s) :
        /\ i + Len(kw) - 1 <= Len(s)
        /\ upper(SubSeq(s, i, i + Len(kw) - 1)) = kw

DenyWordsIn(s) ==
    {k \in DOMAIN unsafe_keywords : \E i \in 1..Len(s) : WholeWordAt(s, unsafe_keywords[k], i)}

ContainsDenyWord(s) == DenyWordsIn(s) # {}

FirstDenyWord(s) ==
    unsafe_keywords[CHOOSE k \in DenyWordsIn(s) : \A j \in DenyWordsIn(s) : k <= j]

\* deny-list keywords occur in s, but only inside longer identifiers
OnlyInsideIdentifiers(s) ==
    /\ \E k \in DOMAIN unsafe_keywords : OccursIn(s, unsafe_keywords[k])
    /\ ~ContainsDenyWord(s)

\* the leading word of the text, upper-cased (<<>> when it starts with no word)
LeadingWord(s) ==
    LET i == SkipSpaces(s, 1)
    IN IF i <= Len(s) /\ s[i] \in IdentChars THEN upper(SubSeq(s, i, WordEnd(s, i))) ELSE <<>>

\* the text of the first statement: up to the first ';'
StatementText(s) ==
    LET e == IndexFrom(s, ";", 1) IN IF e = 0 THEN s ELSE SubSeq(s, 1, e - 1)

RECURSIVE WordStart(_, _)
WordStart(s, i) ==
    IF i > 1 /\ s[i - 1] \in IdentChars THEN WordStart(s, i - 1) ELSE i

\* the table.column references written in the text (outside [quoted names])
TextQualifiedRefs(s) ==
    LET dots == {d \in 2..(Len(s) - 1) :
                    /\ s[d] = "."
                    /\ s[d - 1] \in IdentChars
                    /\ s[d + 1] \in IdentChars
                    /\ ~(WordStart(s, d - 1) > 1 /\ s[WordStart(s, d - 1) - 1] = "[")}
    IN {<<lower(SubSeq(s, WordStart(s, d - 1), d - 1)),
          lower(SubSeq(s, d + 1, WordEnd(s, d + 1)))>> : d \in dots}

SchemaTableNames == {schema[i].table_name : i \in DOMAIN schema}

ColumnsOf(t) == UNION {Range(schema[i].columns) : i \in {j \in DOMAIN schema : schema[j].table_name = t}}

\* the written references to a column that its (existing) table does not have
BadRefs ==
    {r \in TextQualifiedRefs(StatementText(sql_query)) :
        r[1] \in SchemaTableNames /\ r[2] \notin ColumnsOf(r[1])}

\* the qualified columns the walk extracted whose (existing) table lacks them
BadColumns ==
    {c \in columns_in_query : c[1] \in SchemaTableNames /\ c[2] \notin ColumnsOf(c[1])}

Validated == pc = "validated"

(***************************************************************************)
(* The properties.                                                         *)
(***************************************************************************)

\* C1: validate_sql never answers Valid for a query that holds a deny-list keyword
\* as a whole word, wherever it stands (a later statement included), and
\* check_unsafe_query on its own rejects that query.
C1_NeverValidWithDenyWord ==
    (Validated /\ ContainsDenyWord(sql_query))
        => (~result.ok /\ result.reason # "Valid" /\ ~check_unsafe_query(sql_query).safe)

\* C1 witness: a SELECT over existing tables followed by a second, mutating
\* statement is rejected by the keyword check.
C1_Witness ==
    /\ Validated
    /\ result.reason = "Unsafe"
    /\ IndexFrom(sql_query, ";", 1) # 0
    /\ ~ContainsDenyWord(StatementText(sql_query))

C3_NonSelectIsRejected ==
    (Validated /\ sql_query # <<>> /\ LeadingWord(sql_query) # kw_SELECT)
        => (~result.ok /\ result.reason = "OnlySelect")

\* C3 witness: a DELETE over a table that is not in the schema.
C3_Witness ==
    /\ Validated
    /\ LeadingWord(sql_query) = unsafe_keywords[1]
    /\ OccursIn(sql_query, <<"G","H","O","S","T","S">>)
    /\ result.reason = "OnlySelect"

\* C4 (as claimed): a SELECT whose referenced tables are all schema tables and whose
\* qualified columns all resolve is Valid.
C4_ValidWhenSchemaMatches ==
    (/\ Validated
     /\ LeadingWord(sql_query) = kw_SELECT
     /\ tables_in_query \subseteq SchemaTableNames
     /\ BadColumns = {})
        => result.ok

\* C4 (amended): such a SELECT is Valid provided the query text holds no deny-list
\* keyword as a whole word; referenced tables and qualified columns are the ones
\* the token walk extracted, compared with the schema's names as written.
C4_ValidWhenSchemaMatchesAndSafe ==
    (/\ Validated
     /\ LeadingWord(sql_query) = kw_SELECT
     /\ tables_in_query \subseteq SchemaTableNames
     /\ BadColumns = {}
     /\ ~ContainsDenyWord(sql_query))
        => (result.ok /\ result.reason = "Valid")

\* C4 witness: a Valid SELECT over a schema table whose text holds a deny-list
\* keyword inside an identifier.
C4_Witness ==
    /\ Validated
    /\ result.ok
    /\ tables_in_query # {}
    /\ OnlyInsideIdentifiers(sql_query)

\* C5: a SELECT with an unknown table and an unknown column of a known table gets
\* one verdict that reports both.
C5_TableAndColumnInOneVerdict ==
    (/\ Validated
     /\ stmt_type = kw_SELECT
     /\ tables_in_query \ SchemaTableNames # {}
     /\ BadRefs # {})
        => /\ result.reason \in {"Tables", "Columns"}
           /\ (tables_in_query \ SchemaTableNames) \subseteq Range(result.items)
           /\ {Dotted(r) : r \in BadRefs} \subseteq Range(result.items)

\* C6: a later call with the same query and the same schema returns the identical
\* verdict, the order of the reported names included.
C6_SameVerdictEveryRun ==
    (Validated /\ prev_result # NoResult) => result = prev_result

\* C7: check_unsafe_query answers unsafe exactly for the texts that hold a deny-list
\* keyword as a whole word in any letter case; a keyword that occurs only inside a
\* longer identifier leaves the answer safe.  The keyword it names is the first of
\* the list that occurs.
C7_GateWholeWordOnly ==
    safety.called
        => /\ safety.safe <=> ~ContainsDenyWord(sql_query)
           /\ ~safety.safe => safety.keyword = FirstDenyWord(sql_query)

\* C7 witness: a text with a keyword inside an identifier, answered safe.
C7_Witness ==
    /\ safety.called
    /\ safety.safe
    /\ OnlyInsideIdentifiers(sql_query)

\* C8: a table named in the SQL matches a schema table whose name differs only in
\* letter case: no table violation is reported for it.
C8_CaseInsensitiveTables ==
    (/\ Validated
     /\ stmt_type = kw_SELECT
     /\ \A t \in tables_in_query : \E n \in SchemaTableNames : lower(n) = t)
        => result.reason # "Tables"

\* C9: for a SELECT whose referenced tables all exist, every table.column reference
\* to a column its table lacks is reported in the column verdict, and nothing is
\* reported for a reference whose table part is no schema table.
C9_EveryInvalidColumnReported ==
    (/\ Validated
     /\ stmt_type = kw_SELECT
     /\ tables_in_query \subseteq SchemaTableNames)
        => /\ \A r \in BadRefs :
                result.reason = "Columns" /\ Dotted(r) \in Range(result.items)
           /\ result.reason = "Columns"
                => \A k \in DOMAIN result.items :
                       SplitDot(result.items[k])[1] \in SchemaTableNames

\* the last token before position i that is not whitespace (<<>> when none)
PrevToken(toks, i) ==
    LET before == {j \in 1..(i - 1) : toks[j].ttype # "Whitespace"}
    IN IF before = {} THEN <<>> ELSE <<toks[CHOOSE j \in before : \A k \in before : k <= j]>>

\* a FROM keyword or any JOIN form (JOIN, LEFT JOIN, INNER JOIN, CROSS JOIN, ...)
IsFromOrJoin(t) ==
    /\ t.ttype = "Keyword"
    /\ \/ upper(t.value) = kw_FROM
       \/ Len(t.value) >= 4 /\ upper(SubSeq(t.value, Len(t.value) - 3, Len(t.value))) = kw_JOIN

\* the names that directly follow FROM or a JOIN form
NamesAfterFromOrJoin(toks) ==
    {lower(toks[i].value) : i \in {j \in DOMAIN toks :
        /\ toks[j].ttype = "Name"
        /\ PrevToken(toks, j) # <<>>
        /\ IsFromOrJoin(PrevToken(toks, j)[1])}}

\* C10: the referenced tables are exactly the names that directly follow FROM or a
\* JOIN form; a name separated from FROM/JOIN by an unrecorded token is not one.
C10_TablesAreNamesAfterFromOrJoin ==
    (Validated /\ stmt_type = kw_SELECT)
        => tables_in_query = NamesAfterFromOrJoin(FirstStatement(Lex(sql_query, 1)))

====
